---------------------------- MODULE Spec2Model ----------------------------
(***************************************************************************)
(* Project-SteinLine pipeline engine.                                      *)
(*                                                                         *)
(*   RegistryWorker  (core/registry_worker.py)  the fingerprint Scanner    *)
(*   AnalysisWorker  (core/analysis_worker.py)  the batch Reasoner         *)
(*   SteinLineDB     (utils/db_handler.py)      registry / intelligence    *)
(*   CheckpointManager (core/checkpoint_manager.py)                        *)
(*                                                                         *)
(* ScanSpec runs the Scanner (with its controlling thread and its hashing  *)
(* pool) against a fixed source tree; ReasonSpec runs the Reasoner against *)
(* a registry the Scanner can have produced.                               *)
(***************************************************************************)
EXTENDS Integers, Sequences, FiniteSets, TLC

\* ---------------------------------------------------------------- bounds
NumFiles == 4          \* largest source tree: paths 1..NumFiles in walk order
MinFiles == NumFiles - 1   \* smallest source tree
MaxUnreadable == 1     \* files (the last of the walk) whose hashing raises
MaxRuns == 2           \* Scanner runs (Start pressed) in one behaviour
BlockSize == 2         \* commit block threshold (500 in the source, scaled)
cpu_workers == 1       \* config.cpu_workers
batch_size == 3        \* config.batch_size
MAX_FILES_PER_CYCLE == 2   \* config.max_files_per_cycle
MaxChunk == 4          \* largest config.llm_chunk_size
NumQuotes == 1         \* distinct evidence quotes the model can return
MaxInfRuns == 2        \* Reasoner runs (Start pressed) in one behaviour
MinInFlight == 2       \* floor of the in-flight window (4 in the source, scaled)
MaxPieces == 4         \* pieces a model response is put together from
MaxTextLen == 46000    \* longest extracted text (characters)
LenGrain == 500        \* the text lengths tried are the multiples of this

WindowSize == 20000    \* text[i:i+20000]
WindowStep == 18000    \* range(0, len(text), 18000)

None == 0              \* hash_file's tombstone result

DefaultContext == 16384    \* ProjectConfig.context_window
ReducedContext == 8192     \* reduced_len = min(self.config.context_window, 8192)

Paths == 1..NumFiles

Max(a, b) == IF a >= b THEN a ELSE b
Min(a, b) == IF a <= b THEN a ELSE b

\* max_in_flight = max(4, self.config.cpu_workers * 2)
max_in_flight == Max(MinInFlight, cpu_workers * 2)

VARIABLES
    \* ---- the source tree (unchanged during a behaviour)
    tree,            \* set of paths present
    content,         \* path -> the bytes of the file (a content identity)
    unreadable,      \* paths whose open/read raises
    \* ---- one model response and one extracted text, taken on their own
    fn_pc,           \* "idle", or what has been done to the input
    raw,             \* out.outputs[0].text, a sequence of tokens
    facts,           \* the facts parsed from raw
    text_len,        \* len(text)
    chunks,          \* the windows of the text, <<offset, length>> each
    \* ---- one SteinLineDB instance and the threads calling get_connection
    \* ---- for one database path, taken on their own
    conn_pc,         \* caller -> position in get_connection
    locks,           \* self._locks[db_path], None while the key is absent
    lock,            \* caller -> the local variable lock
    held,            \* the Lock objects that are acquired
    connections,     \* self._connections[db_path], None while the key is absent
    created,         \* the connections sqlite3.connect has returned
    journal_sets,    \* PRAGMA journal_mode statements executed for the path
    got,             \* caller -> the connection yielded to it
    \* ---- the content store
    registry,        \* registry table: set of <<fingerprint, path>>
    \* ---- RegistryWorker
    reg_pc,          \* position of run()
    reg_is_running,
    reg_is_paused,
    existing,        \* known-paths cache
    total,
    processed,
    batch,           \* result buffer, sequence of <<fingerprint, path>>
    futures,         \* submitted-but-unretired tasks (paths)
    done,            \* rest of the set returned by wait(FIRST_COMPLETED)
    cur,             \* the future being retired
    phase,           \* "main": submission loop, "drain": as_completed loop
    wi,              \* position of os.walk
    completed,       \* tasks the pool has finished
    ram_over,        \* last memory sample was above ram_limit_gb
    \* ---- observation of the Scanner
    submitted,       \* paths submitted for hashing in this run
    retired,         \* path -> times its result was consumed in this run
    buffered,        \* paths whose pair was appended to the buffer in this run
    handed,          \* path -> times its pair was passed to _commit in this run
    committed,       \* path -> times its pair was in a _commit that succeeded
    sawStop,         \* run() has read is_running = False
    afterPause,      \* tasks retired since the pause flag was last set
    commitFailed,    \* a _commit of this run reported DB_WRITE_ERROR
    runNo,           \* runs started
    okPrev,          \* paths hashed successfully in earlier, uncancelled runs
    hist,            \* one record per returned run
    events,          \* the telemetry emitted by this run, in order
    \* ---- the content store, Reasoner side
    intelligence,    \* intelligence table: set of rows <<fp, quote, severity>>
    inf_txn,         \* rows written on the cached connection and not committed
    checkpoint,      \* content of the checkpoint file
    \* ---- AnalysisWorker
    inf_pc,          \* position of run()
    inf_is_running,
    inf_is_paused,
    attached,        \* ATTACH ... AS intel was executed on the cached connection
    llm_chunk,       \* config.llm_chunk_size
    context_window,  \* config.context_window
    backend,         \* how llm.generate answers
    inf_batch,       \* the batch of the cycle, sequence of fingerprints
    meta,            \* one fingerprint per segment (prompt) of the cycle
    start,           \* offset of the current sub-batch
    sub_len,         \* len(sub_prompts)
    gen_attempt_chunk,
    results,         \* parsed facts of the sub-batch, sequence of <<fp, quote>>
    processed_fps,
    proc_count,
    fact_count,
    \* ---- observation of the Reasoner
    attempts,        \* segment index -> times it was submitted to llm.generate
    saveFailed,      \* a _save of this run logged an exception
    inf_runNo,       \* Reasoner runs started
    gen_end,         \* how the retry loop of the sub-batch was left
    \* ---- observation of the backend initialisation (cleared once it is up)
    llm_calls,       \* LLM(...) constructions attempted
    max_model_len,   \* max_model_len of the latest construction
    critical         \* CRITICAL statuses emitted by this run

fnVars == <<fn_pc, raw, facts, text_len, chunks>>
connVars == <<conn_pc, locks, lock, held, connections, created, journal_sets,
              got>>
envVars == <<tree, content, unreadable, fnVars, connVars>>
regVars == <<reg_pc, reg_is_running, reg_is_paused, existing, total, processed,
             batch, futures, done, cur, phase, wi, completed, ram_over>>
regObs == <<submitted, retired, buffered, handed, committed, sawStop,
            afterPause, commitFailed, runNo, okPrev, hist, events>>
infStore == <<intelligence, inf_txn, checkpoint>>
infVars == <<inf_pc, inf_is_running, inf_is_paused, attached, llm_chunk, backend,
             context_window,
             inf_batch, meta, start, sub_len, gen_attempt_chunk, results,
             processed_fps, proc_count, fact_count>>
infObs == <<attempts, saveFailed, inf_runNo, gen_end, llm_calls, max_model_len,
           critical>>
infAll == <<infStore, infVars, infObs>>
regAll == <<envVars, regVars, regObs>>
vars == <<envVars, registry, regVars, regObs, infStore, infVars, infObs>>

\* --------------------------------------------------------------- helpers

\* hash_file: content-addressed fingerprint, or the tombstone
hash_file(p) == IF p \in unreadable THEN None ELSE content[p]

SeqToSet(s) == {s[i] : i \in 1..Len(s)}

\* the paths of a block of <<fingerprint, path>> pairs
PathsOf(rows) == {rows[i][2] : i \in 1..Len(rows)}

\* a per-path counter advanced for every pair of a block
Count(f, rows) == [p \in Paths |-> IF p \in PathsOf(rows) THEN f[p] + 1 ELSE f[p]]

\* INSERT OR REPLACE: a row of the same fingerprint is overwritten
RECURSIVE InsertOrReplace(_, _)
InsertOrReplace(reg, rows) ==
    IF rows = <<>> THEN reg
    ELSE LET r == Head(rows)
         IN InsertOrReplace({x \in reg : x[1] # r[1]} \cup {r}, Tail(rows))

\* INSERT OR IGNORE INTO registry, table key: fingerprint TEXT PRIMARY KEY
RECURSIVE InsertOrIgnore(_, _)
InsertOrIgnore(reg, rows) ==
    IF rows = <<>> THEN reg
    ELSE LET r == Head(rows)
         IN InsertOrIgnore(IF \E x \in reg : x[1] = r[1] THEN reg
                           ELSE reg \cup {r}, Tail(rows))

\* _commit(batch): ok = the transaction committed; otherwise ROLLBACK
CommitResult(reg, rows, ok) ==
    IF rows = <<>> \/ ~ok THEN reg ELSE InsertOrIgnore(reg, rows)

\* what is recorded when run() returns
RunRecord(reg, failed) ==
    [reg |-> reg, cancelled |-> ~reg_is_running, commitFailed |-> failed]

\* ------------------------------------------------------------------ Init

ScanEnvInit ==
    /\ tree \in {1..n : n \in MinFiles..NumFiles}
    \* every file has bytes of its own, or file 2 is a copy of file 1
    /\ content \in {[p \in Paths |-> p], [p \in Paths |-> IF p = 2 THEN 1 ELSE p]}
    /\ unreadable \in {{p \in tree : p > Cardinality(tree) - k} : k \in 0..MaxUnreadable}

RegInit ==
    /\ reg_pc = "idle"
    /\ reg_is_running = TRUE
    /\ reg_is_paused = FALSE
    /\ existing = {}
    /\ total = 0
    /\ processed = 0
    /\ batch = <<>>
    /\ futures = {}
    /\ done = {}
    /\ cur = 0
    /\ phase = "main"
    /\ wi = 1
    /\ completed = {}
    /\ ram_over = FALSE
    /\ submitted = {}
    /\ retired = [p \in Paths |-> 0]
    /\ buffered = {}
    /\ handed = [p \in Paths |-> 0]
    /\ committed = [p \in Paths |-> 0]
    /\ sawStop = FALSE
    /\ afterPause = 0
    /\ commitFailed = FALSE
    /\ runNo = 0
    /\ okPrev = {}
    /\ hist = <<>>
    /\ events = <<>>

\* the threads that call get_connection at the same time
MaxCallers == 2
Callers == 1..MaxCallers

\* the thread that constructs the SteinLineDB
Constructor == MaxCallers + 1

\* no thread is inside get_connection
ConnIdle ==
    /\ conn_pc = [t \in Callers |-> "idle"]
    /\ locks = None
    /\ lock = [t \in Callers |-> None]
    /\ held = {}
    /\ connections = None
    /\ created = {}
    /\ journal_sets = 0
    /\ got = [t \in Callers |-> None]

\* no response and no text is being looked at
FnIdle ==
    /\ fn_pc = "idle"
    /\ raw = <<>>
    /\ facts = <<>>
    /\ text_len = 0
    /\ chunks = <<>>

NoCheckpoint == [present |-> FALSE, processed |-> 0, last_fp |-> 0, total_facts |-> 0]

InfInit ==
    /\ intelligence = {}
    /\ inf_txn = {}
    /\ checkpoint = NoCheckpoint
    /\ inf_pc = "idle"
    /\ inf_is_running = TRUE
    /\ inf_is_paused = FALSE
    /\ attached = FALSE
    /\ inf_batch = <<>>
    /\ meta = <<>>
    /\ start = 0
    /\ sub_len = 0
    /\ gen_attempt_chunk = 0
    /\ results = <<>>
    /\ processed_fps = {}
    /\ proc_count = 0
    /\ fact_count = 0
    /\ attempts = <<>>
    /\ saveFailed = FALSE
    /\ inf_runNo = 0
    /\ gen_end = "none"
    /\ llm_calls = 0
    /\ max_model_len = 0
    /\ critical = 0

\* the Scanner alone: the Reasoner is never started
ScanInit ==
    /\ ScanEnvInit
    /\ FnIdle
    /\ registry = {}
    /\ RegInit
    /\ InfInit
    /\ ConnIdle
    /\ llm_chunk = MaxChunk
    /\ backend = "any"
    /\ context_window = DefaultContext

\* the Reasoner alone, on a registry of files with bytes of their own that
\* the Scanner has left behind
ReasonInit ==
    /\ tree = Paths
    /\ content = [p \in Paths |-> p]
    /\ unreadable = {}
    /\ FnIdle
    /\ registry \in {{<<content[p], p>> : p \in 1..n} : n \in 1..NumFiles}
    /\ RegInit
    /\ InfInit
    /\ ConnIdle
    /\ llm_chunk \in {2, MaxChunk}
    /\ backend \in {"any", "one_at_a_time"}
    /\ backend = "one_at_a_time" => llm_chunk = MaxChunk
    \* the shipped context window, or one loaded from a project file
    /\ context_window \in {DefaultContext, ReducedContext}
    /\ context_window = ReducedContext
          => (Cardinality(registry) = 1 /\ backend = "any" /\ llm_chunk = MaxChunk)

\* ------------------------------------------------- AnalysisPage (Scanner)

\* run_reg: a new RegistryWorker is constructed and started; the presses
\* followed are those made once the worker started before has returned
run_reg ==
    /\ reg_pc \in {"idle", "done"}
    /\ runNo < MaxRuns
    /\ reg_pc' = "cache"
    /\ reg_is_running' = TRUE
    /\ reg_is_paused' = FALSE
    /\ existing' = {}
    /\ total' = 0
    /\ processed' = 0
    /\ batch' = <<>>
    /\ futures' = {}
    /\ done' = {}
    /\ cur' = 0
    /\ phase' = "main"
    /\ wi' = 1
    /\ completed' = {}
    /\ ram_over' = FALSE
    /\ okPrev' = IF reg_is_running
                 THEN okPrev \cup {p \in completed : hash_file(p) # None}
                 ELSE okPrev
    /\ submitted' = {}
    /\ retired' = [p \in Paths |-> 0]
    /\ buffered' = {}
    /\ handed' = [p \in Paths |-> 0]
    /\ committed' = [p \in Paths |-> 0]
    /\ sawStop' = FALSE
    /\ afterPause' = 0
    /\ commitFailed' = FALSE
    /\ runNo' = runNo + 1
    /\ events' = <<>>
    /\ UNCHANGED <<envVars, registry, hist, infAll>>

\* reg_box.start_btn.isEnabled(): the button is enabled when the page is
\* built, disabled by run_reg, and enabled again by stop_reg and by
\* _reg_finished, the slot of finished_signal
RegStartEnabled ==
    \/ reg_pc = "idle"
    \/ ~reg_is_running
    \/ \E k \in 1..Len(events) : events[k][1] = "complete"

\* pause_cond.wakeAll(): a worker blocked in wait() returns from it
WakeAll(pc) == IF pc = "gate_wait" THEN "stopchk" ELSE pc

\* RegistryWorker.toggle_pause, called on the controlling thread (pause_reg)
reg_toggle_pause ==
    /\ reg_pc \notin {"idle", "done"}
    /\ reg_is_paused' = ~reg_is_paused
    /\ reg_pc' = IF ~reg_is_paused' THEN WakeAll(reg_pc) ELSE reg_pc
    /\ afterPause' = 0
    /\ UNCHANGED <<envVars, registry, reg_is_running, existing, total, processed,
                   batch, futures, done, cur, phase, wi, completed, ram_over,
                   submitted, retired, buffered, handed, committed, sawStop,
                   commitFailed, runNo, okPrev, hist, events, infAll>>

\* RegistryWorker.stop, called on the controlling thread (stop_reg)
reg_stop ==
    /\ reg_pc \notin {"idle", "done"}
    /\ reg_is_running' = FALSE
    /\ reg_is_paused' = FALSE
    /\ reg_pc' = WakeAll(reg_pc)
    /\ afterPause' = 0
    /\ UNCHANGED <<envVars, registry, existing, total, processed,
                   batch, futures, done, cur, phase, wi, completed, ram_over,
                   submitted, retired, buffered, handed, committed, sawStop,
                   commitFailed, runNo, okPrev, hist, events, infAll>>

\* ---------------------------------------------------- RegistryWorker.run

\* the frame of a step of run() that touches neither the tree nor the flags
RegFrame == UNCHANGED <<envVars, reg_is_running, reg_is_paused, runNo, okPrev,
                        afterPause, infAll>>

\* progress is reported every ProgressEvery completions
ProgressEvery == 2

\* a walk that takes every path as new
KnownNever(p) == FALSE

\* p in existing
Known(p) == p \in existing

\* DISCOVERY_PHASE_COMPLETE: {total} files identified for processing.
DiscoveryComplete(n) == <<"discovery", n>>

\* stats_signal(processed, total), sent together with progress_signal
Stats(n) == <<"progress", n>>

\* finished_signal(n), sent after SCAN_COMPLETE or SYSTEM_IDLE
Finished(n) == <<"complete", n>>

\* 1. Build Incremental Cache; when the query raises (CACHE_ERROR) existing
\* stays the empty set
RegLoadCache ==
    /\ reg_pc = "cache"
    /\ \E ok \in BOOLEAN :
         existing' = IF ok THEN {r[2] : r \in registry} ELSE {}
    /\ reg_pc' = "discover"
    /\ RegFrame
    /\ UNCHANGED <<registry, total, processed, batch, futures, done, cur, phase,
                   wi, completed, ram_over, submitted, retired, buffered, handed,
                   committed, sawStop, commitFailed, hist, events>>

\* 2. Discover new files; returns when stopped or when nothing is new
RegDiscover ==
    /\ reg_pc = "discover"
    /\ IF ~reg_is_running
       THEN /\ sawStop' = TRUE
            /\ total' = total
            /\ reg_pc' = "done"
            /\ hist' = Append(hist, RunRecord(registry, commitFailed))
            /\ events' = events
       ELSE /\ sawStop' = sawStop
            /\ total' = Cardinality({p \in tree : ~Known(p)})
            /\ IF total' = 0
               THEN /\ reg_pc' = "done"
                    /\ hist' = Append(hist, RunRecord(registry, commitFailed))
                    /\ events' = events \o <<DiscoveryComplete(total'),
                                              Finished(0)>>
               ELSE /\ reg_pc' = "submit"
                    /\ hist' = hist
                    /\ events' = Append(events, DiscoveryComplete(total'))
    /\ RegFrame
    /\ UNCHANGED <<registry, existing, processed, batch, futures, done, cur,
                   phase, wi, completed, ram_over, submitted, retired, buffered,
                   handed, committed, commitFailed>>

\* the submission loop reads is_running = False and breaks
RegWalkStop ==
    /\ reg_pc = "submit"
    /\ wi \in tree
    /\ ~reg_is_running
    /\ sawStop' = TRUE
    /\ reg_pc' = "drain"
    /\ RegFrame
    /\ UNCHANGED <<registry, existing, total, processed, batch, futures, done,
                   cur, phase, wi, completed, ram_over, submitted, retired,
                   buffered, handed, committed, commitFailed, hist, events>>

\* os.walk is exhausted
RegWalkEnd ==
    /\ reg_pc = "submit"
    /\ wi \notin tree
    /\ reg_pc' = "drain"
    /\ RegFrame
    /\ UNCHANGED <<registry, existing, total, processed, batch, futures, done,
                   cur, phase, wi, completed, ram_over, submitted, retired,
                   buffered, handed, committed, sawStop, commitFailed, hist, events>>

\* if p in existing: continue
RegWalkSkip ==
    /\ reg_pc = "submit"
    /\ wi \in tree
    /\ reg_is_running
    /\ Known(wi)
    /\ wi' = wi + 1
    /\ RegFrame
    /\ UNCHANGED <<registry, reg_pc, existing, total, processed, batch, futures,
                   done, cur, phase, completed, ram_over, submitted, retired,
                   buffered, handed, committed, sawStop, commitFailed, hist, events>>

\* a window that is never found full
WindowNeverFull(n) == FALSE

\* if len(futures) >= max_in_flight
WindowFull(n) == n >= max_in_flight

\* futures.add(executor.submit(self.hash_file, p))
RegSubmit ==
    /\ reg_pc = "submit"
    /\ wi \in tree
    /\ reg_is_running
    /\ ~Known(wi)
    /\ futures' = futures \cup {wi}
    /\ submitted' = submitted \cup {wi}
    /\ wi' = wi + 1
    /\ reg_pc' = IF WindowFull(Cardinality(futures')) THEN "wait" ELSE "submit"
    /\ RegFrame
    /\ UNCHANGED <<registry, existing, total, processed, batch, done, cur, phase,
                   completed, ram_over, retired, buffered, handed, committed,
                   sawStop, commitFailed, hist, events>>

\* ThreadPoolExecutor(max_workers=cpu_workers): the tasks the pool is running
\* are the first cpu_workers unfinished ones, in submission order
Running == {p \in submitted \ completed :
              Cardinality({q \in submitted \ completed : q < p}) < cpu_workers}

\* a pool thread finishes hash_file(p)
HashDone(p) ==
    /\ reg_pc # "done"
    /\ p \in Running
    /\ completed' = completed \cup {p}
    /\ RegFrame
    /\ UNCHANGED <<registry, reg_pc, existing, total, processed, batch, futures,
                   done, cur, phase, wi, ram_over, submitted, retired, buffered,
                   handed, committed, sawStop, commitFailed, hist, events>>

\* done, _ = wait(futures, return_when=FIRST_COMPLETED)
RegWait ==
    /\ reg_pc = "wait"
    /\ futures \cap completed # {}
    /\ done' = futures \cap completed
    /\ reg_pc' = "nextdone"
    /\ RegFrame
    /\ UNCHANGED <<registry, existing, total, processed, batch, futures, cur,
                   phase, wi, completed, ram_over, submitted, retired, buffered,
                   handed, committed, sawStop, commitFailed, hist, events>>

\* for fut in done: futures.remove(fut)
RegNextDone ==
    /\ reg_pc = "nextdone"
    /\ IF done = {}
       THEN /\ reg_pc' = "submit"
            /\ UNCHANGED <<done, futures, cur, phase>>
       ELSE \E fut \in done :
            /\ done' = done \ {fut}
            /\ futures' = futures \ {fut}
            /\ cur' = fut
            /\ phase' = "main"
            /\ reg_pc' = "throttle"
    /\ RegFrame
    /\ UNCHANGED <<registry, existing, total, processed, batch, wi, completed,
                   ram_over, submitted, retired, buffered, handed, committed,
                   sawStop, commitFailed, hist, events>>

\* for fut in as_completed(futures)
RegDrain ==
    /\ reg_pc = "drain"
    /\ IF futures = {}
       THEN /\ reg_pc' = "shutdown"
            /\ UNCHANGED <<futures, cur, phase>>
       ELSE \E fut \in futures \cap completed :
            /\ futures' = futures \ {fut}
            /\ cur' = fut
            /\ phase' = "drain"
            /\ reg_pc' = "throttle"
    /\ RegFrame
    /\ UNCHANGED <<registry, existing, total, processed, batch, done, wi,
                   completed, ram_over, submitted, retired, buffered, handed,
                   committed, sawStop, commitFailed, hist, events>>

\* a safety check that goes on whatever the sample says
ThrottleIgnored(over) == "gate"

\* while used > ram_limit_gb: MEMORY_CRITICAL; time.sleep(2)
ThrottleTarget(over) == IF over THEN "throttle" ELSE "gate"

\* RAM Safety Check: one memory sample; above the limit the loop sleeps
RegThrottle ==
    /\ reg_pc = "throttle"
    /\ \E over \in BOOLEAN :
         /\ ram_over' = over
         /\ reg_pc' = ThrottleTarget(over)
    /\ RegFrame
    /\ UNCHANGED <<registry, existing, total, processed, batch, futures, done,
                   cur, phase, wi, completed, submitted, retired, buffered,
                   handed, committed, sawStop, commitFailed, hist, events>>

\* a gate that lets the worker through whatever the flag says
GateIgnoringPause(paused) == "stopchk"

\* if self.is_paused: self.pause_cond.wait(self.mutex)
GateTarget(paused) == IF paused THEN "gate_call" ELSE "stopchk"

\* PAUSE GATE: mutex.lock(); the flag is read
RegGate ==
    /\ reg_pc = "gate"
    /\ reg_pc' = GateTarget(reg_is_paused)
    /\ RegFrame
    /\ UNCHANGED <<registry, existing, total, processed, batch, futures, done,
                   cur, phase, wi, completed, ram_over, submitted, retired,
                   buffered, handed, committed, sawStop, commitFailed, hist, events>>

\* pause_cond.wait(self.mutex): the worker blocks until wakeAll
RegGateWait ==
    /\ reg_pc = "gate_call"
    /\ reg_pc' = "gate_wait"
    /\ RegFrame
    /\ UNCHANGED <<registry, existing, total, processed, batch, futures, done,
                   cur, phase, wi, completed, ram_over, submitted, retired,
                   buffered, handed, committed, sawStop, commitFailed, hist, events>>

\* a stop in the drain loop that returns at once, skipping the final flush
ReturnAtStopBreak == IF phase = "main" THEN "submit" ELSE "done"

\* where a break at the STOP CHECK leads
AfterStopBreak == IF phase = "main" THEN "submit" ELSE "shutdown"

\* STOP CHECK: if not self.is_running: break
RegStopCheck ==
    /\ reg_pc = "stopchk"
    /\ IF ~reg_is_running
       THEN /\ sawStop' = TRUE
            /\ reg_pc' = AfterStopBreak
       ELSE /\ sawStop' = sawStop
            /\ reg_pc' = "retire"
    /\ RegFrame
    /\ UNCHANGED <<registry, existing, total, processed, batch, futures, done,
                   cur, phase, wi, completed, ram_over, submitted, retired,
                   buffered, handed, committed, commitFailed, hist, events>>

\* a buffer that takes the tombstone as well
BufferAll(b, p) == Append(b, <<hash_file(p), p>>)

\* a block threshold that is never reached
BlockNeverFull(n) == FALSE

\* if len(batch) >= 500
BlockFull(n) == n >= BlockSize

\* the buffer after fut.result(): a tombstone is not appended
Buffer(b, p) == IF hash_file(p) # None THEN Append(b, <<hash_file(p), p>>) ELSE b

\* res, path = fut.result() ... processed += 1 ... commit of a full block
RegRetire ==
    /\ reg_pc = "retire"
    /\ \E ok \in BOOLEAN :
         LET b == Buffer(batch, cur)
             full == BlockFull(Len(b))
         IN /\ processed' = processed + 1
            /\ events' = IF processed' % ProgressEvery = 0
                         THEN Append(events, Stats(processed'))
                         ELSE events
            /\ retired' = [retired EXCEPT ![cur] = @ + 1]
            /\ buffered' = buffered \cup PathsOf(b)
            /\ IF full
               THEN /\ registry' = CommitResult(registry, b, ok)
                    /\ handed' = Count(handed, b)
                    /\ committed' = IF ok THEN Count(committed, b) ELSE committed
                    /\ commitFailed' = (commitFailed \/ ~ok)
                    /\ batch' = <<>>
               ELSE /\ ok
                    /\ batch' = b
                    /\ UNCHANGED <<registry, handed, committed, commitFailed>>
    /\ afterPause' = Min(afterPause + 1, 2)
    /\ reg_pc' = IF phase = "main" THEN "nextdone" ELSE "drain"
    /\ UNCHANGED <<envVars, reg_is_running, reg_is_paused, runNo, okPrev, infAll>>
    /\ UNCHANGED <<existing, total, futures, done, cur, phase, wi, completed,
                   ram_over, submitted, sawStop, hist>>

\* leaving the with-block: executor.shutdown(wait=True)
RegShutdown ==
    /\ reg_pc = "shutdown"
    /\ submitted \subseteq completed
    /\ reg_pc' = "flush"
    /\ RegFrame
    /\ UNCHANGED <<registry, existing, total, processed, batch, futures, done,
                   cur, phase, wi, completed, ram_over, submitted, retired,
                   buffered, handed, committed, sawStop, commitFailed, hist, events>>

\* Final flush: self._commit(batch); finished_signal
RegFlush ==
    /\ reg_pc = "flush"
    /\ \E ok \in BOOLEAN :
         /\ (batch = <<>>) => ok
         /\ registry' = CommitResult(registry, batch, ok)
         /\ handed' = Count(handed, batch)
         /\ committed' = IF ok THEN Count(committed, batch) ELSE committed
         /\ commitFailed' = (commitFailed \/ ~ok)
         /\ hist' = Append(hist, RunRecord(registry', commitFailed'))
    /\ events' = Append(events, Finished(processed))
    /\ reg_pc' = "done"
    /\ RegFrame
    /\ UNCHANGED <<existing, total, processed, batch, futures, done, cur, phase,
                   wi, completed, ram_over, submitted, retired, buffered, sawStop>>

ScanNext ==
    \/ run_reg
    \/ reg_toggle_pause
    \/ reg_stop
    \/ RegLoadCache
    \/ RegDiscover
    \/ RegWalkStop
    \/ RegWalkEnd
    \/ RegWalkSkip
    \/ RegSubmit
    \/ \E p \in Paths : HashDone(p)
    \/ RegWait
    \/ RegNextDone
    \/ RegDrain
    \/ RegThrottle
    \/ RegGate
    \/ RegGateWait
    \/ RegStopCheck
    \/ RegRetire
    \/ RegShutdown
    \/ RegFlush

ScanSpec == ScanInit /\ [][ScanNext]_vars

\* a step of run() on the worker thread
RegWorkerStep ==
    \/ RegLoadCache
    \/ RegDiscover
    \/ RegWalkStop
    \/ RegWalkEnd
    \/ RegWalkSkip
    \/ RegSubmit
    \/ RegWait
    \/ RegNextDone
    \/ RegDrain
    \/ RegThrottle
    \/ RegGate
    \/ RegGateWait
    \/ RegStopCheck
    \/ RegRetire
    \/ RegShutdown
    \/ RegFlush

\* the worker thread and the pool threads keep running while they can, and a
\* memory sample eventually falls below the ceiling; nothing is assumed of
\* the controlling thread, which may issue no further command
ScanFairSpec ==
    /\ ScanSpec
    /\ WF_vars(RegWorkerStep)
    /\ \A p \in Paths : WF_vars(HashDone(p))

\* the bytes a file holds after it was modified in place
Modified(p) == p + NumFiles

\* the files modified in a behaviour
MaxModified == 1

\* between two scans a file of the tree is overwritten with new bytes
Modify(p) ==
    /\ reg_pc = "done"
    /\ runNo < MaxRuns
    /\ p \in tree
    /\ Cardinality({q \in Paths : content[q] = Modified(q)}) < MaxModified
    /\ content' = [content EXCEPT ![p] = Modified(p)]
    /\ UNCHANGED <<tree, unreadable, fnVars, connVars, registry, regVars, regObs,
                   infAll>>

RescanNext == ScanNext \/ \E p \in Paths : Modify(p)

\* repeated scans of a tree whose files are modified in place between them
RescanSpec == ScanInit /\ [][RescanNext]_vars

\* ------------------------------------------------- AnalysisPage (Reasoner)

\* run_inf: a new AnalysisWorker (with a SteinLineDB of its own) is started;
\* the connections of the previous worker are dropped with what they had not
\* committed
run_inf ==
    /\ inf_pc \in {"idle", "done"}
    /\ inf_runNo < MaxInfRuns
    /\ inf_pc' = "init"
    /\ inf_is_running' = TRUE
    /\ inf_is_paused' = FALSE
    /\ attached' = FALSE
    /\ inf_txn' = {}
    /\ inf_batch' = <<>>
    /\ meta' = <<>>
    /\ start' = 0
    /\ sub_len' = 0
    /\ gen_attempt_chunk' = 0
    /\ results' = <<>>
    /\ processed_fps' = {}
    /\ proc_count' = 0
    /\ fact_count' = 0
    /\ attempts' = <<>>
    /\ saveFailed' = FALSE
    /\ inf_runNo' = inf_runNo + 1
    /\ gen_end' = "none"
    /\ llm_calls' = 0
    /\ max_model_len' = 0
    /\ critical' = 0
    /\ UNCHANGED <<regAll, registry, intelligence, checkpoint, llm_chunk, backend,
                   context_window>>

InfWakeAll(pc) == IF pc = "gate_wait" THEN "stopchk" ELSE pc

\* AnalysisWorker.toggle_pause, called on the controlling thread (pause_inf)
inf_toggle_pause ==
    /\ inf_pc \notin {"idle", "done"}
    /\ inf_is_paused' = ~inf_is_paused
    /\ inf_pc' = IF ~inf_is_paused' THEN InfWakeAll(inf_pc) ELSE inf_pc
    /\ UNCHANGED <<regAll, registry, infStore, inf_is_running, attached, llm_chunk,
                   context_window, backend, inf_batch, meta, start, sub_len, gen_attempt_chunk,
                   results, processed_fps, proc_count, fact_count, infObs>>

\* AnalysisWorker.stop, called on the controlling thread (stop_inf)
inf_stop ==
    /\ inf_pc \notin {"idle", "done"}
    /\ inf_is_running' = FALSE
    /\ inf_is_paused' = FALSE
    /\ inf_pc' = InfWakeAll(inf_pc)
    /\ UNCHANGED <<regAll, registry, infStore, attached, llm_chunk,
                   context_window, backend, inf_batch, meta, start, sub_len, gen_attempt_chunk,
                   results, processed_fps, proc_count, fact_count, infObs>>

\* ---------------------------------------------------- AnalysisWorker.run

\* the frame of a step of run() that leaves the Scanner and the flags alone
InfFrame == UNCHANGED <<regAll, registry, inf_is_running, inf_is_paused,
                        llm_chunk, backend, context_window, inf_runNo,
                        llm_calls, max_model_len, critical>>

\* what is common to the steps of the initialisation
InitFrame ==
    UNCHANGED <<regAll, registry, inf_is_running, inf_is_paused, llm_chunk,
                backend, context_window, inf_runNo, infStore, attached,
                inf_batch, meta, start, sub_len, gen_attempt_chunk, results,
                processed_fps, proc_count, fact_count, attempts, saveFailed,
                gen_end>>

\* except ValueError: reduced_len = min(self.config.context_window, 8192)
reduced_len == Min(context_window, ReducedContext)

\* from vllm import ...; llm = LLM(max_model_len=context_window): the import
\* raises out of run(); a ValueError of LLM() leads to the retry; any other
\* exception of LLM() is caught by the outer handler (CRITICAL)
InfInitLLM ==
    /\ inf_pc = "init"
    /\ \E outcome \in {"ok", "ImportError", "ValueError", "Exception"} :
         CASE outcome = "ok" ->
                /\ inf_pc' = "loop"
                /\ UNCHANGED <<llm_calls, max_model_len, critical>>
           [] outcome = "ImportError" ->
                /\ inf_pc' = "done"
                /\ UNCHANGED <<llm_calls, max_model_len, critical>>
           [] outcome = "ValueError" ->
                /\ inf_pc' = "init_retry"
                /\ llm_calls' = 1
                /\ max_model_len' = context_window
                /\ critical' = critical
           [] OTHER ->
                /\ inf_pc' = "done"
                /\ llm_calls' = 1
                /\ max_model_len' = context_window
                /\ critical' = critical + 1
    /\ InitFrame

\* llm = LLM(max_model_len=reduced_len): an exception of the retry is
\* caught by the outer handler (CRITICAL)
InfInitRetry ==
    /\ inf_pc = "init_retry"
    /\ \E ok \in BOOLEAN :
         IF ok
         THEN /\ inf_pc' = "loop"
              /\ llm_calls' = 0
              /\ max_model_len' = 0
              /\ critical' = critical
         ELSE /\ inf_pc' = "done"
              /\ llm_calls' = 2
              /\ max_model_len' = reduced_len
              /\ critical' = critical + 1
    /\ InitFrame

\* while self.is_running
InfLoop ==
    /\ inf_pc = "loop"
    /\ inf_pc' = IF inf_is_running THEN "gate" ELSE "done"
    /\ InfFrame
    /\ UNCHANGED gen_end
    /\ UNCHANGED <<infStore, attached, inf_batch, meta, start, sub_len,
                   gen_attempt_chunk, results, processed_fps, proc_count,
                   fact_count, attempts, saveFailed>>

\* a pause check that lets the worker through whatever the flag says
InfGateIgnoringPause(paused) == "stopchk"

\* if self.is_paused: ENGINE_PAUSED; self.pause_cond.wait(self.mutex)
InfGateTarget(paused) == IF paused THEN "gate_call" ELSE "stopchk"

\* PAUSE CHECK: mutex.lock(); if self.is_paused
InfGate ==
    /\ inf_pc = "gate"
    /\ inf_pc' = InfGateTarget(inf_is_paused)
    /\ InfFrame
    /\ UNCHANGED gen_end
    /\ UNCHANGED <<infStore, attached, inf_batch, meta, start, sub_len,
                   gen_attempt_chunk, results, processed_fps, proc_count,
                   fact_count, attempts, saveFailed>>

\* pause_cond.wait(self.mutex)
InfGateWait ==
    /\ inf_pc = "gate_call"
    /\ inf_pc' = "gate_wait"
    /\ InfFrame
    /\ UNCHANGED gen_end
    /\ UNCHANGED <<infStore, attached, inf_batch, meta, start, sub_len,
                   gen_attempt_chunk, results, processed_fps, proc_count,
                   fact_count, attempts, saveFailed>>

\* STOP CHECK: if not self.is_running: break
InfStopCheck ==
    /\ inf_pc = "stopchk"
    /\ inf_pc' = IF inf_is_running THEN "fetch" ELSE "done"
    /\ InfFrame
    /\ UNCHANGED gen_end
    /\ UNCHANGED <<infStore, attached, inf_batch, meta, start, sub_len,
                   gen_attempt_chunk, results, processed_fps, proc_count,
                   fact_count, attempts, saveFailed>>

\* ---- _get_batch

\* the suffix of each path of the model (path 3 has none and is above 1 KB)
Ext(p) == CASE p = 1 -> ".pdf"
            [] p = 2 -> ".txt"
            [] p = 3 -> ""
            [] p = 4 -> ".db"
            [] OTHER -> ".exe"

AboveOneKB(p) == p = 3

allowed_exts == {".pdf", ".txt", ".md", ".docx", ".doc", ".jpg", ".jpeg", ".png",
                 ".tif", ".tiff", ".mp3", ".wav", ".m4a", ".mp4"}

\* p.endswith('-shm') or p.endswith('-wal') or p.endswith('.db') or ...
IsStoreArtifact(p) == Ext(p) \in {".db", ".sqlite", ".db-shm", ".db-wal"}

\* a filter that lets every path through
AnyPath(p) == TRUE

\* the filter of _get_batch
Eligible(p) ==
    /\ ~IsStoreArtifact(p)
    /\ \/ Ext(p) \in allowed_exts
       \/ Ext(p) = "" /\ AboveOneKB(p)

\* a diff taken over the files of the source tree instead of the registry
UnprocessedInTree ==
    {r \in {<<content[p], p>> : p \in tree} : ~\E x \in intelligence : x[1] = r[1]}

\* registry r LEFT JOIN intel.intelligence i ... WHERE i.fingerprint IS NULL
Unprocessed == {r \in registry : ~\E x \in intelligence : x[1] = r[1]}

\* the row sets a LIMIT batch_size query can return
QueryRows == {q \in SUBSET Unprocessed :
                Cardinality(q) = Min(batch_size, Cardinality(Unprocessed))}

RECURSIVE SortedSeq(_)
SortedSeq(S) ==
    IF S = {} THEN <<>>
    ELSE LET m == CHOOSE x \in S : \A y \in S : x <= y
         IN <<m>> \o SortedSeq(S \ {m})

\* the fingerprints _get_batch returns for a query result, in table order
Filtered(q) == SortedSeq({r[1] : r \in {x \in q : Eligible(x[2])}})

\* batch = batch[:MAX_FILES_PER_CYCLE]
Cap(b) == SubSeq(b, 1, Min(Len(b), MAX_FILES_PER_CYCLE))

\* batch = self._get_batch(): the second ATTACH on the cached connection
\* raises, and _get_batch returns [] from its bare except
InfFetch ==
    /\ inf_pc = "fetch"
    /\ attached' = TRUE
    /\ IF attached
       THEN /\ inf_batch' = <<>>
            /\ inf_pc' = "done"
       ELSE \E q \in QueryRows :
            /\ inf_batch' = Cap(Filtered(q))
            /\ inf_pc' = IF inf_batch' = <<>> THEN "done" ELSE "extract"
    /\ processed_fps' = {}
    /\ meta' = <<>>
    /\ attempts' = <<>>
    /\ InfFrame
    /\ UNCHANGED gen_end
    /\ UNCHANGED <<infStore, start, sub_len, gen_attempt_chunk, results,
                   proc_count, fact_count, saveFailed>>

\* ---- extraction and windowing

\* lengths of the text decon.extract returns (0: it raised or returned '')
TextLens == {0, 10000, 20000}

\* len([text[i:i+20000] for i in range(0, len(text), 18000)])
Segments(len) == (len + WindowStep - 1) \div WindowStep

Perms(b) == {f \in [1..Len(b) -> SeqToSet(b)] :
               \A i, j \in 1..Len(b) : i # j => f[i] # f[j]}

Repeat(x, n) == [i \in 1..n |-> x]

\* meta: the fingerprint of every segment, file by file in completion order
RECURSIVE BuildMeta(_, _)
BuildMeta(order, len) ==
    IF order = <<>> THEN <<>>
    ELSE Repeat(Head(order), Segments(len[Head(order)])) \o BuildMeta(Tail(order), len)

\* extraction in the pool, then prompts/meta; no prompt at all: continue
InfExtract ==
    /\ inf_pc = "extract"
    /\ \E order \in Perms(inf_batch), len \in [SeqToSet(inf_batch) -> TextLens] :
         /\ meta' = BuildMeta(order, len)
         /\ attempts' = [i \in 1..Len(meta') |-> 0]
         /\ inf_pc' = IF meta' = <<>> THEN "loop" ELSE "subbatch"
    /\ start' = 0
    /\ InfFrame
    /\ UNCHANGED gen_end
    /\ UNCHANGED <<infStore, attached, inf_batch, sub_len, gen_attempt_chunk,
                   results, processed_fps, proc_count, fact_count, saveFailed>>

\* ---- inference

\* for start in range(0, len(prompts), llm_chunk): sub_prompts, sub_meta
InfSubBatch ==
    /\ inf_pc = "subbatch"
    /\ IF start >= Len(meta)
       THEN /\ inf_pc' = "placeholders"
            /\ UNCHANGED <<sub_len, gen_attempt_chunk>>
       ELSE /\ sub_len' = Min(llm_chunk, Len(meta) - start)
            /\ gen_attempt_chunk' = llm_chunk
            /\ inf_pc' = "generate"
    /\ InfFrame
    /\ UNCHANGED gen_end
    /\ UNCHANGED <<infStore, attached, inf_batch, meta, start, results,
                   processed_fps, proc_count, fact_count, attempts, saveFailed>>

\* what llm.generate can answer to a call of n prompts
Answers(n) ==
    IF backend = "one_at_a_time"
    THEN IF n = 1 THEN {"accept"} ELSE {"reject"}
    ELSE {"accept", "reject", "error"}

\* the facts parsed from the outputs: output i holds no decodable object
\* (found[i] = 0) or one object with the quote found[i]
RECURSIVE Parsed(_, _, _)
Parsed(i, n, found) ==
    IF i > n THEN <<>>
    ELSE (IF found[i] = 0 THEN <<>> ELSE << <<meta[start + i], found[i]>> >>)
         \o Parsed(i + 1, n, found)

\* a retry that keeps the chunk size
KeepChunk(chunk) == chunk

\* gen_attempt_chunk = max(1, gen_attempt_chunk // 2)
Halve(chunk) == Max(1, chunk \div 2)

\* one llm.generate(sub_prompts, sampling) call and its except clauses
InfGenerate ==
    /\ inf_pc = "generate"
    /\ attempts' = [i \in 1..Len(meta) |->
                      IF i > start /\ i <= start + sub_len
                      THEN attempts[i] + 1 ELSE attempts[i]]
    /\ \E answer \in Answers(sub_len) :
         CASE answer = "accept" ->
                \E found \in [1..sub_len -> 0..NumQuotes] :
                  /\ results' = Parsed(1, sub_len, found)
                  /\ inf_pc' = "persist"
                  /\ gen_end' = "accepted"
                  /\ UNCHANGED <<sub_len, gen_attempt_chunk>>
           [] answer = "reject" ->
                /\ gen_attempt_chunk' = Halve(gen_attempt_chunk)
                /\ IF gen_attempt_chunk' = 1
                   THEN /\ results' = <<>>
                        /\ inf_pc' = "persist"
                        /\ gen_end' = "abandoned"
                        /\ sub_len' = sub_len
                   ELSE /\ sub_len' = Min(sub_len, gen_attempt_chunk')
                        /\ inf_pc' = "generate"
                        /\ gen_end' = gen_end
                        /\ results' = results
           [] OTHER ->
                /\ results' = <<>>
                /\ inf_pc' = "persist"
                /\ gen_end' = "error"
                /\ UNCHANGED <<sub_len, gen_attempt_chunk>>
    /\ InfFrame
    /\ UNCHANGED <<infStore, attached, inf_batch, meta, start, processed_fps,
                   proc_count, fact_count, saveFailed>>

\* ---- _save

\* INSERT OR REPLACE INTO intelligence, key (fingerprint, filename, quote)
Upsert(table, rows) ==
    {x \in table : ~\E r \in rows : r[1] = x[1] /\ r[2] = x[2]} \cup rows

\* the first k rows of a batch, as table rows
Rows(data, k, sev) == {<<data[i][1], data[i][2], sev>> : i \in 1..k}

\* the uncommitted rows on the cached connection after _save: executemany
\* wrote k rows, then conn.commit() ran (ok) or an exception was logged
SaveTxn(txn, rows, ok) == IF ok THEN {} ELSE Upsert(txn, rows)

\* the intelligence table after _save
SaveTable(table, txn, rows, ok) ==
    IF ok THEN Upsert(table, Upsert(txn, rows)) ELSE table

\* CheckpointManager.save_state: the file is rewritten, or the exception of
\* a failed open is swallowed
save_state(old, processed_count, last_fingerprint, total_facts, written) ==
    IF written
    THEN [present |-> TRUE, processed |-> processed_count,
          last_fp |-> last_fingerprint, total_facts |-> total_facts]
    ELSE old

\* if results: _save, fact_count, processed_fps, checkpoint
InfPersist ==
    /\ inf_pc = "persist"
    /\ IF results = <<>>
       THEN UNCHANGED <<infStore, fact_count, processed_fps, saveFailed>>
       ELSE \E k \in 0..Len(results), ok \in BOOLEAN, written \in BOOLEAN :
            LET rows == Rows(results, k, 1)
            IN /\ ok => k = Len(results)
               /\ intelligence' = SaveTable(intelligence, inf_txn, rows, ok)
               /\ inf_txn' = SaveTxn(inf_txn, rows, ok)
               /\ saveFailed' = (saveFailed \/ ~ok)
               /\ fact_count' = fact_count + Len(results)
               /\ processed_fps' = processed_fps \cup {results[i][1] : i \in 1..Len(results)}
               /\ checkpoint' = save_state(checkpoint, proc_count + Len(inf_batch),
                                           results[Len(results)][1], fact_count',
                                           written)
    /\ results' = <<>>
    /\ gen_end' = "none"
    /\ start' = start + llm_chunk
    /\ inf_pc' = "subbatch"
    /\ InfFrame
    /\ UNCHANGED <<attached, inf_batch, meta, sub_len, gen_attempt_chunk,
                   proc_count, attempts>>

\* the batch fingerprints that get a placeholder row (quote '' is 0)
Placeholders == SelectSeq([i \in 1..Len(inf_batch) |-> <<inf_batch[i], 0>>],
                          LAMBDA r : r[1] \notin processed_fps)

\* placeholder rows for the fingerprints without results; proc_count
InfPlaceholders ==
    /\ inf_pc = "placeholders"
    /\ IF Placeholders = <<>>
       THEN UNCHANGED <<infStore, saveFailed>>
       ELSE \E k \in 0..Len(Placeholders), ok \in BOOLEAN :
            LET rows == Rows(Placeholders, k, 0)
            IN /\ ok => k = Len(Placeholders)
               /\ intelligence' = SaveTable(intelligence, inf_txn, rows, ok)
               /\ inf_txn' = SaveTxn(inf_txn, rows, ok)
               /\ saveFailed' = (saveFailed \/ ~ok)
               /\ checkpoint' = checkpoint
    /\ proc_count' = proc_count + Len(inf_batch)
    \* del prompts, meta, extractions; the loop variables are dead
    /\ meta' = <<>>
    /\ attempts' = <<>>
    /\ start' = 0
    /\ sub_len' = 0
    /\ gen_attempt_chunk' = 0
    /\ processed_fps' = {}
    /\ inf_pc' = "loop"
    /\ InfFrame
    /\ UNCHANGED gen_end
    /\ UNCHANGED <<attached, inf_batch, results, fact_count>>

ReasonNext ==
    \/ run_inf
    \/ inf_toggle_pause
    \/ inf_stop
    \/ InfInitLLM
    \/ InfInitRetry
    \/ InfLoop
    \/ InfGate
    \/ InfGateWait
    \/ InfStopCheck
    \/ InfFetch
    \/ InfExtract
    \/ InfSubBatch
    \/ InfGenerate
    \/ InfPersist
    \/ InfPlaceholders

ReasonSpec == ReasonInit /\ [][ReasonNext]_vars

\* ------------------------------------------ both stages on the same store

\* the store is empty, the tree holds three content files, the first two
\* with bytes of their own or with the same bytes
PipeInit ==
    /\ tree = 1..3
    /\ content \in {[p \in Paths |-> p], [p \in Paths |-> IF p = 2 THEN 1 ELSE p]}
    /\ unreadable = {}
    /\ FnIdle
    /\ registry = {}
    /\ RegInit
    /\ InfInit
    /\ ConnIdle
    /\ llm_chunk = 2
    /\ backend = "any"
    /\ context_window = DefaultContext

\* Start of the Scanner is pressed once
PipeStartScan == runNo = 0 /\ run_reg

\* the two worker threads run side by side, neither paused nor stopped
PipeNext ==
    \/ PipeStartScan
    \/ RegLoadCache
    \/ RegDiscover
    \/ RegWalkEnd
    \/ RegSubmit
    \/ \E p \in Paths : HashDone(p)
    \/ RegWait
    \/ RegNextDone
    \/ RegDrain
    \/ RegThrottle
    \/ RegGate
    \/ RegStopCheck
    \/ RegRetire
    \/ RegShutdown
    \/ RegFlush
    \/ run_inf
    \/ InfInitLLM
    \/ InfInitRetry
    \/ InfLoop
    \/ InfGate
    \/ InfStopCheck
    \/ InfFetch
    \/ InfExtract
    \/ InfSubBatch
    \/ InfGenerate
    \/ InfPersist
    \/ InfPlaceholders

PipeSpec == PipeInit /\ [][PipeNext]_vars

\* ------------------------------------- parsing a response, windowing a text

\* the tokens of a response: braces, a comma, a "key": "value" member, or
\* text that is none of these; every token is a <<kind, value>> pair
LBrace == <<"{", "">>
RBrace == <<"}", "">>
Comma == <<",", "">>
Garbage == <<"garbage", "">>
Member(k, v) == <<k, v>>
IsMember(tok) ==
    tok[1] \in {"source", "date", "summary", "type", "crime", "severity"}

\* the text of a severity value, one character per element
SeverityDigits == <<"s", "3", "x", "7">>
SeverityWords == <<"h", "i", "g", "h">>

\* the pieces the responses of the model are put together from
Pieces ==
    { <<LBrace, Member("source", "A"), RBrace>>,
      <<Garbage>>,
      <<LBrace, Member("source", "B"), Comma, RBrace>>,
      <<LBrace, Garbage>>,
      <<LBrace, Member("source", "B"), Comma, Member("date", "D"), RBrace>>,
      <<LBrace, Member("severity", SeverityDigits), RBrace>>,
      <<LBrace, Member("source", "A"), Comma,
        Member("severity", SeverityWords), RBrace>> }

RECURSIVE Concat(_)
Concat(ps) == IF ps = <<>> THEN <<>> ELSE Head(ps) \o Concat(Tail(ps))

Responses == {Concat(ps) : ps \in UNION {[1..n -> Pieces] : n \in 1..MaxPieces}}

\* the text lengths tried
TextLengths == {n \in 0..MaxTextLen : n % LenGrain = 0}

\* re.findall(r'\{[^{}]*\}', raw): position i opens an item when raw[i] is
\* "{" and the next brace after it is "}"; the value is the position of
\* that "}", or 0
ItemEnd(text, i) ==
    IF text[i] # LBrace THEN 0
    ELSE LET braces == {j \in (i + 1)..Len(text) : text[j] \in {LBrace, RBrace}}
         IN IF braces = {} THEN 0
            ELSE LET j == CHOOSE x \in braces : \A y \in braces : x <= y
                 IN IF text[j] = RBrace THEN j ELSE 0

\* json.loads(item) succeeds: members separated by single commas, nothing
\* else between the braces, no trailing comma
Decodes(inner) ==
    \/ inner = <<>>
    \/ /\ Len(inner) % 2 = 1
       /\ \A k \in 1..Len(inner) :
            IF k % 2 = 1 THEN IsMember(inner[k]) ELSE inner[k] = Comma

\* f.get(key, default): the last member of that key wins
Get(inner, key, default) ==
    LET at == {k \in 1..Len(inner) : inner[k][1] = key}
    IN IF at = {} THEN default
       ELSE inner[CHOOSE k \in at : \A m \in at : m <= k][2]

\* the tuple appended to results for one decoded object
FactOf(inner) ==
    [source |-> Get(inner, "source", "N/A"),
     date |-> Get(inner, "date", "Unknown"),
     summary |-> Get(inner, "summary", ""),
     category |-> Get(inner, "type", "General"),
     crime |-> Get(inner, "crime", "None"),
     severity |-> 1]

\* the objects of the response that decode, in order: the f of each pass of
\* the loop that reaches results.append
RECURSIVE DecodedFrom(_, _)
DecodedFrom(text, i) ==
    IF i > Len(text) THEN <<>>
    ELSE LET j == ItemEnd(text, i)
         IN IF j = 0 THEN DecodedFrom(text, i + 1)
            ELSE LET inner == SubSeq(text, i + 1, j - 1)
                 IN (IF Decodes(inner) THEN <<inner>> ELSE <<>>)
                    \o DecodedFrom(text, j + 1)

Digits == {"0", "1", "2", "3", "4", "5", "6", "7", "8", "9"}

DigitValue(c) ==
    CASE c = "0" -> 0 [] c = "1" -> 1 [] c = "2" -> 2 [] c = "3" -> 3
      [] c = "4" -> 4 [] c = "5" -> 5 [] c = "6" -> 6 [] c = "7" -> 7
      [] c = "8" -> 8 [] c = "9" -> 9

\* int(match.group()) of the digit run that starts at position i
RECURSIVE RunValue(_, _, _)
RunValue(s, i, acc) ==
    IF i > Len(s) \/ s[i] \notin Digits THEN acc
    ELSE RunValue(s, i + 1, acc * 10 + DigitValue(s[i]))

\* match = re.search(r'\d+', str(val)); int(match.group()) if match else 1
safe_int(val) ==
    LET at == {i \in 1..Len(val) : val[i] \in Digits}
    IN IF at = {} THEN 1
       ELSE RunValue(val, CHOOSE i \in at : \A k \in at : i <= k, 0)

\* for item in items: try json.loads ... except: continue
RECURSIVE ParseFrom(_, _)
ParseFrom(text, i) ==
    IF i > Len(text) THEN <<>>
    ELSE LET j == ItemEnd(text, i)
         IN IF j = 0 THEN ParseFrom(text, i + 1)
            ELSE LET inner == SubSeq(text, i + 1, j - 1)
                 IN (IF Decodes(inner) THEN <<FactOf(inner)>> ELSE <<>>)
                    \o ParseFrom(text, j + 1)

\* the length of a window cut without overlap
ChunkLenNoOverlap(len, off) == Min(WindowStep, len - off)

\* len(text[i:i+20000])
ChunkLen(len, off) == Min(WindowSize, len - off)

\* [text[i:i+20000] for i in range(0, len(text), 18000)]
Chunks(len) ==
    [k \in 1..Cardinality({i \in 0..(len - 1) : i % WindowStep = 0}) |->
        <<(k - 1) * WindowStep, ChunkLen(len, (k - 1) * WindowStep)>>]

FnInit ==
    /\ tree = Paths
    /\ content = [p \in Paths |-> p]
    /\ unreadable = {}
    /\ registry = {}
    /\ RegInit
    /\ InfInit
    /\ ConnIdle
    /\ llm_chunk = MaxChunk
    /\ backend = "any"
    /\ context_window = DefaultContext
    /\ facts = <<>>
    /\ chunks = <<>>
    /\ \/ fn_pc = "raw" /\ raw \in Responses /\ text_len = 0
       \/ fn_pc = "text" /\ raw = <<>> /\ text_len \in TextLengths

\* the parse of one output of llm.generate
FnParse ==
    /\ fn_pc = "raw"
    /\ facts' = ParseFrom(raw, 1)
    /\ fn_pc' = "parsed"
    /\ UNCHANGED <<tree, content, unreadable, connVars, raw, text_len, chunks, registry,
                   regVars, regObs, infAll>>

\* the windows of one extracted text
FnWindow ==
    /\ fn_pc = "text"
    /\ chunks' = Chunks(text_len)
    /\ fn_pc' = "windowed"
    /\ UNCHANGED <<tree, content, unreadable, connVars, raw, text_len, facts, registry,
                   regVars, regObs, infAll>>

FnNext == FnParse \/ FnWindow

FnSpec == FnInit /\ [][FnNext]_vars

\* -------------------------------------------- SteinLineDB.get_connection

\* what a step of get_connection leaves alone
ConnFrame == UNCHANGED <<tree, content, unreadable, fnVars, registry, regVars,
                         regObs, infAll>>

\* the callers are about to call get_connection(db_path) on an instance that
\* has been constructed: for a path that _initialize_schema has opened the
\* lock and the connection are there, made by the constructing thread; for
\* any other path (one entered in the settings since) neither is
ConnInit ==
    /\ tree = Paths
    /\ content = [p \in Paths |-> p]
    /\ unreadable = {}
    /\ FnIdle
    /\ registry = {}
    /\ RegInit
    /\ InfInit
    /\ llm_chunk = MaxChunk
    /\ backend = "any"
    /\ context_window = DefaultContext
    /\ conn_pc = [t \in Callers |-> "call"]
    /\ lock = [t \in Callers |-> None]
    /\ held = {}
    /\ got = [t \in Callers |-> None]
    /\ \/ /\ locks = Constructor
          /\ connections = Constructor
          /\ created = {Constructor}
          /\ journal_sets = 1
       \/ /\ locks = None
          /\ connections = None
          /\ created = {}
          /\ journal_sets = 0

\* if db_path not in self._locks
ConnCheckLock(t) ==
    /\ conn_pc[t] = "call"
    /\ conn_pc' = [conn_pc EXCEPT ![t] = IF locks = None THEN "mklock"
                                        ELSE "getlock"]
    /\ UNCHANGED <<locks, lock, held, connections, created, journal_sets, got>>
    /\ ConnFrame

\* self._locks[db_path] = Lock()
ConnMakeLock(t) ==
    /\ conn_pc[t] = "mklock"
    /\ locks' = t
    /\ conn_pc' = [conn_pc EXCEPT ![t] = "getlock"]
    /\ UNCHANGED <<lock, held, connections, created, journal_sets, got>>
    /\ ConnFrame

\* lock = self._locks[db_path]
ConnGetLock(t) ==
    /\ conn_pc[t] = "getlock"
    /\ lock' = [lock EXCEPT ![t] = locks]
    /\ conn_pc' = [conn_pc EXCEPT ![t] = "acquire"]
    /\ UNCHANGED <<locks, held, connections, created, journal_sets, got>>
    /\ ConnFrame

\* with lock: (blocks while another thread holds the same Lock object);
\* if db_path not in self._connections
ConnAcquire(t) ==
    /\ conn_pc[t] = "acquire"
    /\ lock[t] \notin held
    /\ held' = held \cup {lock[t]}
    /\ conn_pc' = [conn_pc EXCEPT ![t] = IF connections = None THEN "connect"
                                        ELSE "release"]
    /\ UNCHANGED <<locks, lock, connections, created, journal_sets, got>>
    /\ ConnFrame

\* conn = sqlite3.connect(db_path, ...)
ConnConnect(t) ==
    /\ conn_pc[t] = "connect"
    /\ created' = created \cup {t}
    /\ conn_pc' = [conn_pc EXCEPT ![t] = "journal"]
    /\ UNCHANGED <<locks, lock, held, connections, journal_sets, got>>
    /\ ConnFrame

\* conn.execute("PRAGMA journal_mode=...") and the other pragmas
ConnJournal(t) ==
    /\ conn_pc[t] = "journal"
    /\ journal_sets' = journal_sets + 1
    /\ conn_pc' = [conn_pc EXCEPT ![t] = "store"]
    /\ UNCHANGED <<locks, lock, held, connections, created, got>>
    /\ ConnFrame

\* self._connections[db_path] = conn
ConnStore(t) ==
    /\ conn_pc[t] = "store"
    /\ connections' = t
    /\ conn_pc' = [conn_pc EXCEPT ![t] = "release"]
    /\ UNCHANGED <<locks, lock, held, created, journal_sets, got>>
    /\ ConnFrame

\* the end of the with block: the Lock is released
ConnRelease(t) ==
    /\ conn_pc[t] = "release"
    /\ held' = held \ {lock[t]}
    /\ conn_pc' = [conn_pc EXCEPT ![t] = "yield"]
    /\ UNCHANGED <<locks, lock, connections, created, journal_sets, got>>
    /\ ConnFrame

\* yield self._connections[db_path]
ConnYield(t) ==
    /\ conn_pc[t] = "yield"
    /\ got' = [got EXCEPT ![t] = connections]
    /\ conn_pc' = [conn_pc EXCEPT ![t] = "done"]
    /\ UNCHANGED <<locks, lock, held, connections, created, journal_sets>>
    /\ ConnFrame

ConnNext ==
    \E t \in Callers :
        \/ ConnCheckLock(t)
        \/ ConnMakeLock(t)
        \/ ConnGetLock(t)
        \/ ConnAcquire(t)
        \/ ConnConnect(t)
        \/ ConnJournal(t)
        \/ ConnStore(t)
        \/ ConnRelease(t)
        \/ ConnYield(t)

ConnSpec == ConnInit /\ [][ConnNext]_vars

\* ======================================================= Scanner claims

\* the runs that have returned so far were neither cancelled nor hit a
\* DB_WRITE_ERROR
CleanRun(i) == ~hist[i].cancelled /\ ~hist[i].commitFailed

Readable(p) == p \in tree /\ p \notin unreadable

Fingerprints(reg) == {r[1] : r \in reg}

\* C2 (as claimed): after a Scanner run over a tree in which two files at
\* different paths have identical bytes the registry holds one row per path,
\* both with the same fingerprint; a tree of 3 files with 2 distinct contents
\* ends with 3 rows and 2 distinct fingerprints.
C2_DuplicateRegisteredTwice ==
    (Len(hist) >= 1 /\ CleanRun(1)) =>
        /\ \A p, q \in tree :
             (p # q /\ Readable(p) /\ Readable(q) /\ content[p] = content[q])
                => /\ <<content[p], p>> \in hist[1].reg
                   /\ <<content[q], q>> \in hist[1].reg
        /\ (tree = 1..3 /\ unreadable = {} /\ content[2] = content[1])
                => /\ Cardinality(hist[1].reg) = 3
                   /\ Cardinality(Fingerprints(hist[1].reg)) = 2

C4_HashedAtMostOnce ==
    (\A i \in 1..Len(hist) : CleanRun(i)) => submitted \cap okPrev = {}

\* C6 (as claimed): while the pause flag is set, neither the processed
\* count nor the registry changes.
C6_NoProgressWhilePaused ==
    [][(reg_is_paused /\ reg_is_paused' /\ runNo' = runNo)
          => (processed' = processed /\ registry' = registry)]_vars

\* C6 (amended): from the moment the pause flag is set until it is cleared
\* at most one more task is retired; every task is retired at most once,
\* and exactly once when the run returns uncancelled; no pair is passed to
\* a commit twice.
C6_PauseHaltsAfterOneTask ==
    /\ reg_is_paused => afterPause <= 1
    /\ \A p \in Paths : retired[p] <= 1 /\ handed[p] <= 1
    /\ (reg_pc = "done" /\ reg_is_running)
          => \A p \in submitted : retired[p] = 1

\* C6 witness: the flag was set during hashing, one task was retired under
\* it, and the worker is blocked at the gate with tasks left to retire.
C6_Witness ==
    /\ reg_pc = "gate_wait"
    /\ reg_is_paused
    /\ afterPause = 1
    /\ processed >= 1
    /\ futures # {}

\* C7 (as claimed): the worker is never left blocked in wait() while
\* is_paused is false.
C7_NoLostWakeup == ~(reg_pc = "gate_wait" /\ ~reg_is_paused)

\* C8: once run() has read the running flag cleared no task is submitted,
\* and when run() has returned every result that was appended to the buffer
\* has been passed to a commit.
C8_StopSubmitsNothingAndFlushes ==
    /\ [](reg_pc = "done" => \A p \in buffered : handed[p] >= 1)
    /\ [][(sawStop /\ sawStop') => submitted' = submitted]_vars

\* C8 witness: a cancelled run has returned, and the result it held in its
\* buffer when it saw the stop was flushed.
C8_Witness ==
    /\ reg_pc = "done"
    /\ sawStop
    /\ \E p \in buffered : handed[p] = 1 /\ committed[p] = 1
    /\ submitted # completed \cap submitted \/ \E p \in submitted : retired[p] = 0

\* ====================================================== Reasoner claims

HasRow(fp) == \E x \in intelligence : x[1] = fp

\* C1 (as claimed): when a cycle has ended, every fingerprint of the batch
\* it worked on has at least one Intelligence row (no _save having failed).
C1_EveryBatchFileGetsARow ==
    (inf_pc = "loop" /\ ~saveFailed)
        => \A i \in 1..Len(inf_batch) : HasRow(inf_batch[i])

\* C5 (as claimed): with a backend that rejects every call of more than one
\* prompt and accepts every call of one prompt, when the sub-batches of a
\* cycle are through every segment was submitted exactly once.
C5_EachSegmentAttemptedOnce ==
    (backend = "one_at_a_time" /\ inf_pc = "placeholders")
        => \A i \in 1..Len(meta) : attempts[i] = 1

\* C9 (as claimed): each value written to the checkpoint file is at least
\* the value it replaces, in processed and in total_facts, also when the
\* write is made by a new run on the same file.
C9_CheckpointNonDecreasing ==
    [][(checkpoint.present /\ checkpoint'.present)
          => /\ checkpoint'.processed >= checkpoint.processed
             /\ checkpoint'.total_facts >= checkpoint.total_facts]_vars

\* C10 (as claimed): a store write is all-or-nothing: a step of a write path
\* leaves the table as it was or with exactly the rows of its own batch
\* written, so no row of a failed batch is ever in the store.
C10_WritesAllOrNothing ==
    [][/\ reg_pc = "retire"
          => registry' \in {registry, InsertOrIgnore(registry, Buffer(batch, cur))}
       /\ reg_pc = "flush"
          => registry' \in {registry, InsertOrIgnore(registry, batch)}
       /\ inf_pc = "persist"
          => intelligence' \in {intelligence,
                                Upsert(intelligence, Rows(results, Len(results), 1))}
       /\ inf_pc = "placeholders"
          => intelligence' \in {intelligence,
                                Upsert(intelligence,
                                       Rows(Placeholders, Len(Placeholders), 0))}]_vars

\* ========================================================= store claims

\* no two rows of the registry carry the same fingerprint (its primary key)
RegistryKeyed(reg) == \A x, y \in reg : x[1] = y[1] => x = y

\* no two rows of the intelligence table carry the same primary key
IntelKeyed(table) == \A x, y \in table : (x[1] = y[1] /\ x[2] = y[2]) => x = y

\* C11: a commit never removes or alters a row that is in a table and never
\* leaves two rows with one key; and when a step has committed a batch,
\* committing the same batch once more would leave the table as it is.
C11_RecommitChangesNothing ==
    [][/\ registry \subseteq registry'
       /\ intelligence \subseteq intelligence'
       /\ RegistryKeyed(registry')
       /\ IntelKeyed(intelligence')
       /\ (reg_pc = "retire" /\ registry' = InsertOrIgnore(registry, Buffer(batch, cur)))
             => InsertOrIgnore(registry', Buffer(batch, cur)) = registry'
       /\ (reg_pc = "flush" /\ registry' = InsertOrIgnore(registry, batch))
             => InsertOrIgnore(registry', batch) = registry'
       /\ (inf_pc = "persist" /\ intelligence' # intelligence)
             => Upsert(intelligence', Rows(results, Len(results), 1)) = intelligence'
       /\ (inf_pc = "placeholders" /\ intelligence' # intelligence)
             => Upsert(intelligence', Rows(Placeholders, Len(Placeholders), 0))
                  = intelligence']_vars

\* C11 witness: the Scanner has committed the block that held the two
\* paths of one fingerprint, and the Reasoner is about to save a fact that
\* an earlier sub-batch of the cycle has already committed.
C11_Witness ==
    /\ content[1] = content[2]
    /\ committed[1] = 1 /\ committed[2] = 1
    /\ inf_pc = "persist"
    /\ \E i \in 1..Len(results) : <<results[i][1], results[i][2], 1>> \in intelligence

\* the tasks submitted in this run whose result has not been consumed
Unretired == {p \in submitted : retired[p] = 0}

\* C12: the submitted-but-unretired hashing tasks never number more than
\* max(4, 2 * cpu_workers) (the 4 scaled to MinInFlight); a file is
\* submitted only while fewer than that many are unretired.
C12_InFlightCapped ==
    /\ [](Cardinality(Unretired) <= Max(MinInFlight, 2 * cpu_workers))
    /\ [][(runNo' = runNo /\ submitted' # submitted)
            => Cardinality(Unretired) < Max(MinInFlight, 2 * cpu_workers)]_vars

\* C12 witness: the window was full, a task was retired, and a further
\* file was submitted, filling the window again.
C12_Witness ==
    /\ Cardinality(submitted) > Max(MinInFlight, 2 * cpu_workers)
    /\ Cardinality(Unretired) = Max(MinInFlight, 2 * cpu_workers)
    /\ reg_pc = "wait"

\* ====================================================== Reasoner fetch

\* C13: whatever rows the LIMIT query picks, every pair _get_batch returns
\* is a registry entry whose fingerprint has no Intelligence row and whose
\* path has an allowed extension, or none and a size above 1 KB, and is no
\* database, journal or lock file of the store; at most batch_size pairs are
\* returned, and the batch of a cycle is taken from such a result.
C13_BatchIsEligibleUnprocessed ==
    /\ [](\A q \in QueryRows :
            /\ Len(Filtered(q)) <= batch_size
            /\ \A i \in 1..Len(Filtered(q)) :
                 \E r \in registry :
                   /\ r[1] = Filtered(q)[i]
                   /\ ~HasRow(r[1])
                   /\ Ext(r[2]) \notin {".db", ".sqlite", ".db-shm", ".db-wal"}
                   /\ \/ Ext(r[2]) \in allowed_exts
                      \/ Ext(r[2]) = "" /\ AboveOneKB(r[2]))
    /\ [][(inf_pc = "fetch" /\ inf_pc' # "fetch")
            => \/ inf_batch' = <<>>
               \/ \E q \in QueryRows :
                    \E n \in 1..Len(Filtered(q)) : inf_batch' = SubSeq(Filtered(q), 1, n)]_vars

\* C13 witness: a batch was fetched from a registry that held more
\* unprocessed rows than the limit, a database file among them.
C13_Witness ==
    /\ inf_pc = "extract"
    /\ inf_batch # <<>>
    /\ Cardinality(Unprocessed) > batch_size
    /\ \E r \in Unprocessed : IsStoreArtifact(r[2])

\* the registry entries _get_batch is meant to hand out
EligibleUnprocessed == {r \in Unprocessed : Eligible(r[2])}

\* C14 (as claimed): a run that was neither stopped nor failed fatally has
\* ended with QUEUE_EXHAUSTED only when no eligible registry entry is
\* without an Intelligence row.
C14_ExhaustedOnlyWhenDrained ==
    (inf_pc = "done" /\ inf_is_running /\ attached) => EligibleUnprocessed = {}

\* ============================================== parser and window claims

\* {"source":"A"} garbage {"source":"B",} {malformed
ExampleResponse ==
    <<LBrace, Member("source", "A"), RBrace, Garbage,
      LBrace, Member("source", "B"), Comma, RBrace, LBrace, Garbage>>

\* C15 (as claimed): the response {"source":"A"} garbage {"source":"B",}
\* {malformed yields exactly two facts, A and B, each with date "Unknown"
\* and category "General".
C15_ExampleYieldsTwoFacts ==
    (fn_pc = "parsed" /\ raw = ExampleResponse)
        => /\ Len(facts) = 2
           /\ facts[1].source = "A" /\ facts[2].source = "B"
           /\ \A i \in 1..2 : facts[i].date = "Unknown" /\ facts[i].category = "General"

\* the window k of the text covers the characters off .. off + len - 1
ChunkOff(k) == chunks[k][1]
ChunkEnd(k) == chunks[k][1] + chunks[k][2]

\* the windows start at 0, 18000, 36000, ... below the length of the text,
\* are between 1 and 20000 characters long and cover every character
WindowsCoverText ==
    /\ Len(chunks) = Segments(text_len)
    /\ \A k \in 1..Len(chunks) :
         /\ ChunkOff(k) = (k - 1) * 18000
         /\ ChunkOff(k) < text_len
         /\ chunks[k][2] >= 1 /\ chunks[k][2] <= 20000
         /\ ChunkEnd(k) <= text_len
    /\ \A c \in 0..(text_len - 1) :
         \E k \in 1..Len(chunks) : ChunkOff(k) <= c /\ c < ChunkEnd(k)
    /\ text_len = 45000 => (Len(chunks) = 3 /\ ChunkOff(2) = 18000)

\* C16 (as claimed): the windows cover the text as above, and every window
\* after the first shares its first 2000 characters with the end of the
\* window before it.
C16_WindowsOverlapBy2000 ==
    fn_pc = "windowed"
        => /\ WindowsCoverText
           /\ \A k \in 2..Len(chunks) :
                /\ chunks[k][2] >= 2000
                /\ ChunkEnd(k - 1) = ChunkOff(k) + 2000

\* C16 (amended): the windows cover the text as above; every window but the
\* last is longer than 18000 characters, and a window after the first shares
\* with the end of the window before it its first 2000 characters, or all
\* of its characters when it has fewer than 2000.
C16_WindowsOverlapUpTo2000 ==
    fn_pc = "windowed"
        => /\ WindowsCoverText
           /\ \A k \in 1..(Len(chunks) - 1) : chunks[k][2] > 18000
           /\ \A k \in 2..Len(chunks) :
                ChunkEnd(k - 1) = ChunkOff(k) + Min(2000, chunks[k][2])

\* C16 witness: the 45000-character text has been cut into its windows.
C16_Witness ==
    /\ fn_pc = "windowed"
    /\ text_len = 45000
    /\ Len(chunks) = 3

\* ============================================ Reasoner run-level claims

\* C17 (as claimed): a failed backend initialisation is always followed by
\* one retry; the retry asks for a smaller context window than the one
\* configured; when the retry fails too, the run has made two attempts,
\* emitted one CRITICAL status, fetched no batch and written neither an
\* Intelligence row nor the checkpoint.
C17_InitRetriedOnceReduced ==
    /\ [](inf_pc = "init_retry" => reduced_len < context_window)
    /\ [][(inf_pc = "init" /\ inf_pc' \notin {"init", "loop"})
            => inf_pc' = "init_retry"]_vars
    /\ [][(inf_pc = "init_retry" /\ inf_pc' = "done")
            => /\ llm_calls' = 2
               /\ critical' = 1
               /\ ~attached'
               /\ intelligence' = intelligence
               /\ checkpoint' = checkpoint]_vars

\* C18: with the Scanner and the Reasoner running side by side on the
\* store, the fingerprint of every Intelligence row, fact or placeholder,
\* committed or still in the open transaction, is the fingerprint of a
\* registry row.
C18_FactsReferToRegistry ==
    \A x \in intelligence \cup inf_txn : \E r \in registry : r[1] = x[1]

\* C18 witness: the Reasoner has committed a fact and a placeholder while
\* the Scanner is still at work on a file it has not registered yet.
C18_Witness ==
    /\ reg_pc \notin {"idle", "done"}
    /\ \E p \in tree : <<content[p], p>> \notin registry
    /\ \E x \in intelligence : x[3] = 1
    /\ \E x \in intelligence : x[3] = 0

\* C19 (as claimed): when the commit of a sub-batch of facts fails, the
\* sub-batch counts as not committed: the step leaves the Intelligence
\* table, the fact counter and the checkpoint as they were; and no row that
\* a failed commit left behind is in the table afterwards, so the files of
\* the sub-batch stay in the unprocessed diff.
C19_FailedCommitCountsForNothing ==
    /\ [][(inf_pc = "persist" /\ ~saveFailed /\ saveFailed')
            => /\ intelligence' = intelligence
               /\ fact_count' = fact_count
               /\ checkpoint' = checkpoint]_vars
    /\ [][(inf_txn # {} /\ inf_pc \in {"persist", "placeholders"})
            => inf_txn \cap intelligence' = {}]_vars

\* C20 (as claimed): once the running flag is cleared, the sub-batch loop
\* starts no further inference call of the cycle, and the loop's stop check
\* lets no new batch be fetched.
C20_NoSubBatchAfterStop ==
    /\ [][(~inf_is_running /\ inf_pc = "subbatch") => inf_pc' # "generate"]_vars
    /\ [][(~inf_is_running /\ inf_pc = "stopchk") => inf_pc' # "fetch"]_vars

\* =================================================== retry loop claims

\* len(prompts[start:start+llm_chunk]): the segments of the sub-batch
SubBatchLen == Min(llm_chunk, Len(meta) - start)

\* C21 (as claimed): when the retry loop of a sub-batch was left through an
\* accepted call made after a rejection, that call held every segment of
\* the sub-batch.
C21_ShrinkDropsNoSegment ==
    (inf_pc = "persist" /\ gen_end = "accepted" /\ gen_attempt_chunk < llm_chunk)
        => sub_len = SubBatchLen

\* the generate calls one sub-batch can take when every call is rejected:
\* a call at the configured size, then one per halving that leaves more
\* than 1
RECURSIVE MaxCalls(_)
MaxCalls(chunk) == IF chunk \div 2 <= 1 THEN 1 ELSE 1 + MaxCalls(chunk \div 2)

\* what holds of the retry loop whichever way it is left
RetryLoopBounded ==
    /\ [](\A i \in 1..Len(attempts) : attempts[i] <= MaxCalls(llm_chunk))
    /\ [](inf_pc = "generate" => gen_attempt_chunk >= 1)
    /\ [][(inf_pc = "generate" /\ inf_pc' = "generate" /\ attempts' # attempts)
            => gen_attempt_chunk' = Max(1, gen_attempt_chunk \div 2)]_vars
    /\ [][(inf_pc = "persist" /\ inf_pc' # "persist")
            => (start' = start + llm_chunk /\ attempts' = attempts)]_vars
    /\ [][(inf_pc = "subbatch" /\ inf_pc' = "generate")
            => (gen_attempt_chunk' = llm_chunk /\ sub_len' = SubBatchLen)]_vars

Dropped == SeqToSet(inf_batch) \ SeqToSet(meta)

\* C23 (as claimed): a file of the batch whose extraction raised or gave
\* no text has no Intelligence row when the cycle has written its
\* placeholders, so it is still in the registry-minus-intelligence diff.
C23_DroppedFileStaysUnprocessed ==
    [][(inf_pc = "placeholders" /\ inf_pc' # "placeholders")
          => \A fp \in Dropped : ~\E x \in intelligence' : x[1] = fp]_vars

\* the row a placeholder for fp is stored as, and whether fp has a fact row
PlaceholderRow(fp) == <<fp, 0, 0>>
HasFact(fp) == \E x \in intelligence : x[1] = fp /\ x[3] = 1

\* C24 (as claimed): when a cycle has ended without a failed write, a
\* fingerprint of its batch has a placeholder row exactly if it has no fact
\* row; and writing the placeholders changes neither the fact counter nor
\* the checkpoint.
C24_PlaceholderIffNoFact ==
    /\ []((inf_pc = "loop" /\ ~saveFailed)
            => \A fp \in SeqToSet(inf_batch) :
                 (PlaceholderRow(fp) \in intelligence) <=> ~HasFact(fp))
    /\ [][(inf_pc = "placeholders" /\ inf_pc' # "placeholders")
            => (fact_count' = fact_count /\ checkpoint' = checkpoint)]_vars

\* ========================================================= flag claims

\* the worker thread holds self.mutex: from mutex.lock() of the PAUSE GATE,
\* the flag read as set, up to pause_cond.wait(self.mutex), which releases
\* it (toggle_pause and stop never lock it)
RegHoldsMutex == reg_pc = "gate_call"

\* the positions of run() whose next step reads is_running
RegReadsRunning == {"discover", "submit", "stopchk"}

\* C25 (as claimed): the flags are accessed under the worker's mutex only:
\* no write of is_paused or is_running by the controlling thread happens
\* while the worker thread holds the mutex, and the worker holds it when it
\* reads is_running.
C25_FlagsOnlyUnderMutex ==
    /\ [][(runNo' = runNo
           /\ <<reg_is_paused', reg_is_running'>> # <<reg_is_paused, reg_is_running>>)
            => ~RegHoldsMutex]_vars
    /\ [](reg_pc \in RegReadsRunning => RegHoldsMutex)

\* the worker is at pause_cond.wait(self.mutex) of the PAUSE CHECK
InfBlocked == inf_pc \in {"gate_call", "gate_wait"}

\* C26: the Reasoner looks at the pause flag at the PAUSE CHECK of a cycle
\* and nowhere else: with the flag set there it goes to wait, and it never
\* comes to wait from inside a cycle; while it waits no batch is fetched, no
\* generate call is made and neither the store nor the checkpoint changes,
\* and it leaves the wait only on a resume or a stop.
C26_PauseTakesEffectAtCycleStart ==
    /\ [][(inf_pc = "gate" /\ inf_is_paused /\ inf_pc' # "gate")
            => inf_pc' = "gate_call"]_vars
    /\ [][(InfBlocked' /\ ~InfBlocked) => inf_pc = "gate"]_vars
    /\ [][InfBlocked
            => /\ infStore' = infStore
               /\ attempts' = attempts
               /\ inf_batch' = inf_batch
               /\ inf_pc' \in {"gate_call", "gate_wait", "stopchk"}]_vars
    /\ [][(inf_pc = "gate_wait" /\ inf_pc' # "gate_wait")
            => (inf_pc' = "stopchk" /\ ~inf_is_paused')]_vars

\* C26 witness: in its first run the worker has taken a batch through
\* inference, persistence and the checkpoint, and is now kept waiting at
\* the PAUSE CHECK of the next cycle by a pause.
C26_Witness ==
    /\ inf_runNo = 1
    /\ inf_pc = "gate_wait"
    /\ inf_is_paused
    /\ inf_batch # <<>>
    /\ \E x \in intelligence : x[3] = 1
    /\ checkpoint.present

\* ================================================ Scanner buffer claims

\* the positions of run() between the RAM Safety Check and the consumption
\* of the result of the task it was made for
PastThrottle == {"gate", "gate_call", "gate_wait", "stopchk", "retire"}

\* C27: a task's result is consumed only after a memory sample at or below
\* the limit: past the safety check the last sample was not above it, and a
\* sample above it leaves the Scanner in the throttle loop with processed,
\* the buffer and the registry as they were.
C27_NoRetireAboveRamLimit ==
    /\ [](reg_pc \in PastThrottle => ~ram_over)
    /\ [][(reg_pc = "throttle" /\ ram_over')
            => /\ reg_pc' = "throttle"
               /\ processed' = processed
               /\ batch' = batch
               /\ retired' = retired
               /\ registry' = registry]_vars
    /\ [][(processed' # processed /\ runNo' = runNo) => ~ram_over]_vars

\* C27 witness: with results already consumed and a completed task taken
\* up, the sample is above the limit and the Scanner is throttling.
C27_Witness ==
    /\ reg_pc = "throttle"
    /\ ram_over
    /\ processed >= 1
    /\ cur \in completed
    /\ retired[cur] = 0

\* the files of this run whose result was consumed and held a hash
RetiredOk == {p \in Paths : retired[p] >= 1 /\ hash_file(p) # None}

\* the buffer is emptied in the step in which it reaches the block size,
\* and a block goes to the registry in one transaction or not at all
BufferBounded ==
    /\ [](Len(batch) < BlockSize)
    /\ [][(reg_pc = "retire" /\ runNo' = runNo)
            => registry' \in {registry, InsertOrIgnore(registry, Buffer(batch, cur))}]_vars
    /\ [][(reg_pc = "flush" /\ runNo' = runNo)
            => registry' \in {registry, InsertOrIgnore(registry, batch)}]_vars

\* C28 (as claimed): the buffer stays below the block size between steps,
\* a block is written in one transaction, and when the run has returned
\* every file retired with a hash has been in exactly one committed block.
C28_EveryRetiredFileInOneCommittedBlock ==
    /\ BufferBounded
    /\ [](reg_pc = "done" => \A p \in RetiredOk : committed[p] = 1)

\* C28 (amended): the buffer stays below the block size between steps, a
\* block is written in one transaction, and when the run has returned every
\* file retired with a hash has been passed to exactly one commit; its
\* fingerprint is registered when no commit of the run failed.
C28_EveryRetiredFileInOneBlock ==
    /\ BufferBounded
    /\ [](\A p \in Paths : handed[p] <= 1 /\ committed[p] <= handed[p])
    /\ [](reg_pc = "done" => \A p \in RetiredOk : handed[p] = 1)
    /\ []((reg_pc = "done" /\ ~commitFailed)
            => \A p \in RetiredOk :
                 /\ committed[p] = 1
                 /\ \E r \in registry : r[1] = hash_file(p))

\* C28 witness: the run has returned after committing one full block when
\* the buffer reached the block size and a last block of one entry in the
\* final flush.
C28_Witness ==
    /\ reg_pc = "done"
    /\ ~commitFailed
    /\ Cardinality({p \in Paths : committed[p] = 1}) = BlockSize + 1

\* the positions of run() after the submission loop has walked the tree
WalkOver == {"drain", "shutdown", "flush", "done"}

\* C29: a file whose hashing raises never gets a registry row and no row
\* carries the tombstone; its result is consumed at most once in a run; a
\* run that returns uncancelled with every commit succeeding has registered
\* the fingerprint of every other file it submitted; and, never being among
\* the known paths, the file is submitted by every run that walks the whole
\* tree, the next one included.
C29_TombstoneSkippedAndRetriedNextScan ==
    /\ [](\A r \in registry : r[1] # None /\ r[2] \notin unreadable)
    /\ [](\A p \in unreadable : retired[p] <= 1 /\ handed[p] = 0)
    /\ []((reg_pc = "done" /\ reg_is_running /\ ~commitFailed)
            => \A p \in submitted \ unreadable :
                 \E r \in registry : r[1] = hash_file(p))
    /\ [](existing \cap unreadable = {})
    /\ []((reg_pc \in WalkOver /\ ~sawStop) => unreadable \subseteq submitted)

\* C29 witness: the first run returned uncancelled and registered the
\* readable files; the second run has submitted the unreadable file again
\* and consumed its tombstone.
C29_Witness ==
    /\ runNo = 2
    /\ Len(hist) >= 1
    /\ CleanRun(1)
    /\ \A q \in tree \ unreadable : \E r \in registry : r[2] = q
    /\ \E p \in unreadable : p \in submitted /\ retired[p] = 1

\* ===================================================== checkpoint claims

\* the table rows of the facts of the sub-batch being persisted
ResultRows == Rows(results, Len(results), 1)

\* C30 (as claimed): a step that writes the checkpoint for a sub-batch has
\* committed the facts of that sub-batch, all of them being in the table
\* after it; and a sub-batch whose checkpoint write failed has its facts
\* committed all the same and the cycle goes on to the next sub-batch.
C30_CheckpointOnlyAfterCommit ==
    /\ [][(inf_pc = "persist" /\ checkpoint' # checkpoint)
            => ResultRows \subseteq intelligence']_vars
    /\ [][(inf_pc = "persist" /\ inf_pc' # "persist")
            => inf_pc' = "subbatch"]_vars

\* ========================================================= severity claims

\* C31: the severity stored with each parsed fact is the integer of the first
\* run of digits in the severity member of the object it was parsed from, and
\* 1 when the member is missing or holds no digit
C31_SeverityFromFirstDigitRun ==
    fn_pc = "parsed" =>
        LET objs == DecodedFrom(raw, 1)
        IN /\ Len(facts) = Len(objs)
           /\ \A k \in 1..Len(facts) :
                facts[k].severity = safe_int(Get(objs[k], "severity", <<>>))

\* C32: a text that is not empty and not longer than the window is cut into
\* exactly one segment
C32_ShortTextIsOneSegment ==
    (fn_pc = "windowed" /\ text_len > 0 /\ text_len <= WindowSize) =>
        Len(chunks) = 1

\* ======================================================== telemetry claims

EventsOf(kind) == {k \in 1..Len(events) : events[k][1] = kind}

\* C33: in every Scanner run the discovery-complete event precedes every
\* progress event, the progress counts do not decrease and stay within the
\* total, and a run that has returned sent exactly one scan-complete event,
\* the last of the run, with the number of retired tasks, which is the total
\* when the run was not cancelled
C33_TelemetryOrderAndCounts ==
    /\ \A k \in EventsOf("progress") :
         /\ \E d \in EventsOf("discovery") : d < k
         /\ events[k][2] <= total
         /\ \A j \in EventsOf("progress") : j < k => events[j][2] <= events[k][2]
    /\ (reg_pc = "done" /\ runNo > 0) =>
         /\ EventsOf("complete") = {Len(events)}
         /\ events[Len(events)][2] = processed
         /\ reg_is_running => processed = total

\* ============================================================ rescan claims

\* the registry as it was when the current scan started
StartRegistry == IF runNo >= 2 THEN hist[runNo - 1].reg ELSE {}

PathsIn(reg) == {r[2] : r \in reg}

C35_StopEventuallyReturns == [](~reg_is_running => <>(reg_pc = "done"))

\* C36: stop() on a Reasoner at its pause gate wakes it: the worker is never
\* in pause_cond.wait with the running flag already cleared (where only a
\* later Pause and Resume could release it), and from the STOP CHECK that
\* follows the gate a stopped worker goes to the end of the run (ENGINE_IDLE,
\* finished) without fetching a batch
C36_StopReleasesGate ==
    [][/\ inf_pc' = "gate_wait" => inf_is_running'
       /\ (inf_pc = "stopchk" /\ ~inf_is_running)
            => inf_pc' \in {"stopchk", "done"}]_vars

\* ================================================== checkpoint count claims

\* the registry fingerprints with at least one row in the table
WithRows(intel) == {r[1] : r \in registry} \cap {x[1] : x \in intel}

\* C37: the processed value of every checkpoint write is at most the number
\* of distinct registry fingerprints that have an Intelligence row when the
\* write is made
C37_CheckpointCountsOnlyPersisted ==
    [][(inf_pc = "persist" /\ checkpoint' # checkpoint)
         => checkpoint'.processed <= Cardinality(WithRows(intelligence'))]_vars

\* ============================================================ worker claims

\* C38: at most one worker of a stage runs at a time: whenever Start can be
\* pressed, which constructs and starts a new worker unconditionally, the
\* worker started before has returned from run
C38_StartOnlyAfterReturn == RegStartEnabled => reg_pc \in {"idle", "done"}

\* ======================================================== connection claims

\* C39: whatever the interleaving of the callers of get_connection for one
\* path, one connection at most is created for the path, its journal mode
\* is set once, and every caller that has been served got that cached
\* connection
C39_OneConnectionPerPath ==
    /\ Cardinality(created) <= 1
    /\ journal_sets <= 1
    /\ \A t \in Callers :
         conn_pc[t] = "done" => got[t] \in created /\ got[t] = connections


=============================================================================
